---- MODULE Spec2Model ----
(***************************************************************************)
(* A model of gerritboard: the paginated fetch of open changes from a      *)
(* Gerrit server (gerritboard.py GerritChangesFetcher, offset-based, and   *)
(* gerritstats.py fetch_chunk, cursor-resume), the Code-Review label       *)
(* classifier, the AggregateStat rollups and the report builder.           *)
(*                                                                         *)
(* The four parts are checked under specifications of their own            *)
(* (SpecFetch, SpecClassify, SpecStats, SpecReport); the variables of the  *)
(* parts a specification does not run stay at their idle values.           *)
(***************************************************************************)
EXTENDS Integers, Sequences, FiniteSets, TLC

VARIABLES
    \* ---- the fetch loop ----
    mode,               \* "offset": gerritboard.py, "cursor": gerritstats.py
    batch,              \* self.batch / BATCH_SIZE
    query,              \* the caller's filter map given to fetch_all
    fpc,                \* position: "init", "loop", "done", "raised", "exit"
    search_operators,   \* the mutable search-filter map
    has_more_changes,   \* truthiness of ret[-1].get('_more_changes')
    chunk_num,          \* 1-based chunk counter
    sortkey,            \* gerritstats.py: the resume cursor, None at first
    changes,            \* the records accumulated by fetch_all
    requests,           \* every endpoint queried so far, in order
    responses,          \* what the service answered to each of them
    \* ---- the Code-Review classifier ----
    votes,              \* labels['Code-Review']: its keys, in insertion order
    cls_html,           \* whether the formatter is the HTMLGerritFormatter
    board_cell,         \* what GerritFormatter.CodeReview returned
    stats_cell,         \* what gerritstats.py put in the Review column
    \* ---- GerritStats ----
    stat_changes,       \* GerritStats.changes
    stat_idx,           \* how many of them the constructor's loop has folded
    general,            \* GerritStats.general
    per_projects,       \* GerritStats.per_projects
    per_owners,         \* GerritStats.per_owners
    \* ---- GerritBoard and its formatter ----
    args,               \* the docopt arguments
    rpc,                \* position: "new", "constructed", "done"
    gerrit_query,       \* GerritBoard.gerrit_query
    formatter,          \* table_headers, split, header, footer, html
    project_rows,       \* GerritFormatter.project_rows, in insertion order
    board_changes,      \* GerritBoard.changes
    fetched,            \* what fetch_all returns to main
    cache,              \* the shelf 'gerritboard_cache'
    output              \* what main prints

fetchVars == <<mode, batch, query, fpc, search_operators, has_more_changes,
               chunk_num, sortkey, changes, requests, responses>>

classVars == <<votes, cls_html, board_cell, stats_cell>>

statsVars == <<stat_changes, stat_idx, general, per_projects, per_owners>>

reportVars == <<args, rpc, gerrit_query, formatter, project_rows,
                board_changes, fetched, cache, output>>

vars == <<fetchVars, classVars, statsVars, reportVars>>

(***************************************************************************)
(* Python values.  A dict is a function from its keys; {} is the function  *)
(* with the empty domain.  None and False are values of their own.  A      *)
(* string that the program compares, slices or parses is the sequence of   *)
(* its character codes; a string it only passes on is a TLA+ string.       *)
(***************************************************************************)
EmptyDict == <<>>

PyNone == "None"

PyFalse == "False"

\* bool(x) for the values an owner argument takes
Truthy(x) == x \notin {PyNone, PyFalse, ""}

Has(d, k) == k \in DOMAIN d

\* d.get(k): the value, or None when the key is missing
Get(d, k) == IF k \in DOMAIN d THEN d[k] ELSE PyNone

\* d.update(other): the keys of other win
DictUpdate(d, other) == other @@ d

Last(s) == s[Len(s)]

Min(a, b) == IF a < b THEN a ELSE b

RECURSIVE Concat(_)
Concat(ss) == IF ss = <<>> THEN <<>> ELSE Head(ss) \o Concat(Tail(ss))

RECURSIVE SumLen(_)
SumLen(ss) == IF ss = <<>> THEN 0 ELSE Len(Head(ss)) + SumLen(Tail(ss))

\* a < b on Python strings and on tuples of numbers: the first difference
\* decides, and a proper prefix is smaller
SeqLess(a, b) ==
    \/ /\ Len(a) < Len(b)
       /\ \A i \in 1 .. Len(a) : a[i] = b[i]
    \/ \E i \in 1 .. Min(Len(a), Len(b)) :
          /\ a[i] < b[i]
          /\ \A j \in 1 .. i - 1 : a[j] = b[j]

\* min(a, b) and max(a, b) of Python: the first argument wins a tie
PyMin(a, b) == IF SeqLess(b, a) THEN b ELSE a

PyMax(a, b) == IF SeqLess(a, b) THEN b ELSE a

\* s[:-n]
DropLast(s, n) == IF Len(s) > n THEN SubSeq(s, 1, Len(s) - n) ELSE <<>>

RECURSIVE Pow10(_)
Pow10(n) == IF n = 0 THEN 1 ELSE 10 * Pow10(n - 1)

\* '%0<w>d' % n: the w decimal digits of n, as character codes
Digits(n, w) == [i \in 1 .. w |-> 48 + ((n \div Pow10(w - i)) % 10)]

\* str(n) of a number below 100
Str(n) == IF n < 10 THEN Digits(n, 1) ELSE Digits(n, 2)

\* int(s[a..b]) of a string of digits
RECURSIVE ParseInt(_, _, _)
ParseInt(s, a, b) ==
    IF a > b THEN 0 ELSE 10 * ParseInt(s, a, b - 1) + (s[b] - 48)

(***************************************************************************)
(* Bounds of the model and constants of the program.                       *)
(***************************************************************************)
\* the service serves at most this many non-empty pages in one run
MaxPages == 2

\* a Code-Review vote set has at most this many keys
MaxVotes == 4

\* fetch_all returns at most this many changes to GerritBoard and
\* GerritStats
MaxFetched == 3

\* gerritboard.py: GerritChangesFetcher.MAX_BATCH_SIZE
MAX_BATCH_SIZE == 500

\* gerritstats.py: BATCH_SIZE
BATCH_SIZE == 450

\* gerritstats.py line 41: the limit the script checks BATCH_SIZE against
STATS_LIMIT == 500

\* the length of '.fffffffff', which [:-10] cuts off a Gerrit timestamp
FRACTION_LEN == 10

\* the change numbers the service may put in a page
RecordIds == {1, 2}

\* the lengths of a non-empty page (never more than the limit asked for)
PageLens == 1 .. 2

\* the --batch values tried: small ones, so that a page can be full, and
\* the two around the server's cap
BatchSizes == {1, 2, MAX_BATCH_SIZE, MAX_BATCH_SIZE + 1}

\* the filter maps a caller of fetch_all passes: none, an owner filter, or
\* a map with a 'limit' key of its own
Queries == {EmptyDict, "owner" :> "hashar", "limit" :> 1, "limit" :> 2}

\* the _sortkey values of a cursor-resume server
Sortkeys == {"0036c5180003798a", "0036c5190003798b"}

\* the keys a Code-Review vote set may hold: the four the classifier
\* knows, and two it does not
KnownVotes == {"rejected", "approved", "disliked", "recommended"}

VoteKeys == KnownVotes \cup {"optional", "blocking"}

(***************************************************************************)
(* The remote service: query(endpoint) -> list of records, or the empty    *)
(* list.  It serves a finite number of non-empty pages, each within the    *)
(* limit of the request, and then empty responses.  An offset-based server *)
(* flags the last record of a page with _more_changes when more records    *)
(* exist; a cursor-resume server gives every record its _sortkey.          *)
(***************************************************************************)
SeqsOfLen(S, n) == [1 .. n -> S]

OffsetRecords == {("_number" :> n) : n \in RecordIds}

CursorRecords == {("_number" :> n) @@ ("_sortkey" :> k) :
                      n \in RecordIds, k \in Sortkeys}

\* the page p with the more-records flag set on its last record
FlagLast(p) == [p EXCEPT ![Len(p)] = @ @@ ("_more_changes" :> TRUE)]

PagesOf(records, limit) ==
    UNION {SeqsOfLen(records, n) : n \in {l \in PageLens : l <= limit}}

Pages(limit) ==
    IF mode = "offset"
    THEN LET plain == PagesOf(OffsetRecords, limit)
         IN plain \cup {FlagLast(p) : p \in plain}
    ELSE PagesOf(CursorRecords, limit)

NonEmpty(rs) == SelectSeq(rs, LAMBDA r : r # <<>>)

Serve(endpoint) ==
    {<<>>} \cup
    (IF Len(NonEmpty(responses)) < MaxPages
     THEN Pages(endpoint["q"]["limit"]) ELSE {})

(***************************************************************************)
(* gerritboard.py: GerritChangesFetcher                                    *)
(***************************************************************************)
validate_batch_size_GE(size) == ~(size >= MAX_BATCH_SIZE)

\* _validate_batch_size
validate_batch_size(size) == ~(size > MAX_BATCH_SIZE)

\* search_operators = {'is': 'open', 'limit': str(self.batch)}, then
\* search_operators.update(query).  The limit is kept as the number that
\* str() writes and the server reads back.
SeedOperators(size, q) ==
    DictUpdate(("is" :> "open") @@ ("limit" :> size), q)

StartOffset_Previous(num, size) == (num - 1) * size

\* '&start=%s' % (chunk_num * self.batch)
StartOffset(num, size) == num * size

\* the endpoint of one request: o=LABELS, o=DETAILED_ACCOUNTS, q=<operators>
\* and, once a chunk has signalled more changes, start=<offset>
Endpoint(ops, more, num, size) ==
    (("o" :> <<"LABELS", "DETAILED_ACCOUNTS">>) @@ ("q" :> ops))
    @@ (IF more THEN "start" :> StartOffset(num, size) ELSE EmptyDict)

Extend_DropFirst(list, chunk) == list \o Tail(chunk)

\* changes.extend(chunk)
Extend(list, chunk) == list \o chunk

\* ret[-1].get('_more_changes'), as the truth value the loop tests
MoreChanges(ret) ==
    Has(Last(ret), "_more_changes") /\ Last(ret)["_more_changes"] = TRUE

\* fetch_all() starts the generator: the batch size is validated, the
\* filter map is seeded, no request has been issued yet
FetchAll ==
    /\ mode = "offset"
    /\ fpc = "init"
    /\ IF ~validate_batch_size(batch)
       THEN /\ fpc' = "raised"
            /\ UNCHANGED <<search_operators, has_more_changes, chunk_num,
                           changes>>
       ELSE /\ fpc' = "loop"
            /\ search_operators' = SeedOperators(batch, query)
            /\ has_more_changes' = FALSE
            /\ chunk_num' = 0
            /\ changes' = <<>>
    /\ UNCHANGED <<mode, batch, query, sortkey, requests, responses>>
    /\ UNCHANGED <<classVars, statsVars, reportVars>>

\* one turn of the while loop of fetch_chunks, with fetch_all's extend
FetchChunks ==
    /\ mode = "offset"
    /\ fpc = "loop"
    /\ LET endpoint == Endpoint(search_operators, has_more_changes,
                                chunk_num, batch)
       IN \E ret \in Serve(endpoint) :
            /\ requests' = Append(requests, endpoint)
            /\ responses' = Append(responses, ret)
            /\ IF ret = <<>>
               THEN /\ fpc' = "done"
                    /\ UNCHANGED <<chunk_num, changes, has_more_changes>>
               ELSE /\ chunk_num' = chunk_num + 1
                    /\ changes' = Extend(changes, ret)
                    /\ has_more_changes' = MoreChanges(ret)
                    /\ fpc' = IF MoreChanges(ret) THEN "loop" ELSE "done"
    /\ UNCHANGED <<mode, batch, query, search_operators, sortkey>>
    /\ UNCHANGED <<classVars, statsVars, reportVars>>

(***************************************************************************)
(* gerritstats.py: fetch_chunk and the script around it                    *)
(***************************************************************************)
\* lines 41-49: the size check, then the generator is started
GerritStatsStart ==
    /\ mode = "cursor"
    /\ fpc = "init"
    /\ IF BATCH_SIZE > STATS_LIMIT
       THEN /\ fpc' = "exit"
            /\ UNCHANGED <<search_operators, sortkey, changes>>
       ELSE /\ fpc' = "loop"
            /\ search_operators' =
                   ("is" :> "open") @@ ("owner" :> "hashar")
                   @@ ("limit" :> batch)
            /\ sortkey' = PyNone
            /\ changes' = <<>>
    /\ UNCHANGED <<mode, batch, query, has_more_changes, chunk_num,
                   requests, responses>>
    /\ UNCHANGED <<classVars, statsVars, reportVars>>

NextSortkey_First(ret) == Get(ret[1], "_sortkey")

\* sortkey = ret[-1].get('_sortkey')
NextSortkey(ret) == Get(Last(ret), "_sortkey")

\* one turn of the while loop of fetch_chunk, with the script's extend
FetchChunk ==
    /\ mode = "cursor"
    /\ fpc = "loop"
    /\ LET ops == IF sortkey # PyNone
                  THEN DictUpdate(search_operators,
                                  "resume_sortkey" :> sortkey)
                  ELSE search_operators
           endpoint == ("o" :> <<"LABELS">>) @@ ("q" :> ops)
       IN \E ret \in Serve(endpoint) :
            /\ search_operators' = ops
            /\ requests' = Append(requests, endpoint)
            /\ responses' = Append(responses, ret)
            /\ IF ret = <<>>
               THEN /\ fpc' = "done"
                    /\ UNCHANGED <<changes, sortkey>>
               ELSE /\ fpc' = "loop"
                    /\ changes' = Extend(changes, ret)
                    /\ sortkey' = NextSortkey(ret)
    /\ UNCHANGED <<mode, batch, query, has_more_changes, chunk_num>>
    /\ UNCHANGED <<classVars, statsVars, reportVars>>

(***************************************************************************)
(* Gerrit timestamps and the changes of the model.                         *)
(***************************************************************************)
\* 'YYYY-MM-DD HH:MM:SS' of the instant t = <<Y, M, D, h, m, s>>
StampSeconds(t) ==
    Digits(t[1], 4) \o <<45>> \o Digits(t[2], 2) \o <<45>> \o Digits(t[3], 2)
    \o <<32>> \o Digits(t[4], 2) \o <<58>> \o Digits(t[5], 2) \o <<58>>
    \o Digits(t[6], 2)

\* a timestamp as Gerrit writes it: 'YYYY-MM-DD HH:MM:SS.fffffffff'
GerritStamp(t, nanos) == StampSeconds(t) \o <<46>> \o Digits(nanos, 9)

\* datetime.strptime(date, '%Y-%m-%d %H:%M:%S'): <<Y, M, D, h, m, s>>
Strptime(date) ==
    <<ParseInt(date, 1, 4), ParseInt(date, 6, 7), ParseInt(date, 9, 10),
      ParseInt(date, 12, 13), ParseInt(date, 15, 16), ParseInt(date, 18, 19)>>

\* module level: NOW_SECONDS = datetime.utcnow().replace(microsecond=0),
\* read once when the program starts
NOW_SECONDS == <<2020, 6, 2, 12, 0, 0>>

\* project names
ProjA == <<97>>            \* 'a'
ProjAB == <<97, 47, 98>>  \* 'a/b'
ProjB == <<98>>            \* 'b'

Hashar == <<104, 97, 115, 104, 97, 114>>
Jdoe == <<106, 100, 111, 101>>

\* the changes a server may hold: change number n has the n-th project,
\* owner, mergeable flag, timestamps and labels of these tables.  Two
\* changes of project 'a' are updated in the same second, 7 and 4
\* nanoseconds into it.
PoolProject == <<ProjA, ProjB, ProjA, ProjA, ProjAB>>

PoolOwner == <<
    ("_account_id" :> 1) @@ ("name" :> "Antoine") @@ ("username" :> Hashar),
    ("_account_id" :> 7) @@ ("name" :> "gone"),
    ("_account_id" :> 2) @@ ("name" :> "John") @@ ("username" :> Jdoe),
    ("_account_id" :> 1) @@ ("name" :> "Antoine") @@ ("username" :> Hashar),
    ("_account_id" :> 42) @@ ("name" :> "gone too") >>

PoolMergeable == <<TRUE, FALSE, FALSE, TRUE, TRUE>>

PoolCreated == <<
    GerritStamp(<<2020, 1, 1, 10, 0, 0>>, 0),
    GerritStamp(<<2019, 12, 1, 23, 59, 59>>, 999000000),
    GerritStamp(<<2020, 6, 1, 8, 30, 0>>, 0),
    GerritStamp(<<2019, 12, 1, 23, 59, 59>>, 1000000),
    GerritStamp(<<2020, 6, 2, 11, 59, 30>>, 0) >>

PoolUpdated == <<
    GerritStamp(<<2020, 6, 1, 9, 0, 0>>, 7),
    GerritStamp(<<2020, 5, 1, 0, 0, 0>>, 0),
    GerritStamp(<<2020, 2, 29, 12, 0, 0>>, 0),
    GerritStamp(<<2020, 6, 1, 9, 0, 0>>, 4),
    GerritStamp(<<2020, 6, 2, 11, 59, 30>>, 500000000) >>

PoolCodeReview == <<
    <<"approved", "rejected">>,
    <<>>,
    <<"recommended", "disliked">>,
    <<"optional">>,
    <<"recommended">> >>

PoolVerified == <<
    <<"approved">>,
    <<"rejected", "approved">>,
    <<"all">>,
    <<>>,
    <<"recommended">> >>

PoolChange(n) ==
    ("_number" :> n) @@ ("project" :> PoolProject[n])
    @@ ("owner" :> PoolOwner[n]) @@ ("mergeable" :> PoolMergeable[n])
    @@ ("created" :> PoolCreated[n]) @@ ("updated" :> PoolUpdated[n])
    @@ ("labels" :> (("Code-Review" :> PoolCodeReview[n])
                     @@ ("Verified" :> PoolVerified[n])))

Pool == {PoolChange(n) : n \in 1 .. Len(PoolProject)}

Range(s) == {s[i] : i \in DOMAIN s}

\* the lists of distinct changes of at most n records, in every order
ChangeLists(n) ==
    UNION {{l \in [1 .. k -> Pool] : Cardinality(Range(l)) = k} : k \in 0 .. n}

\* formatAccountInfo: the username, or '<deleted #<id>>' without one
formatAccountInfo(acct) ==
    IF Has(acct, "username") THEN acct["username"]
    ELSE <<60, 100, 101, 108, 101, 116, 101, 100, 32, 35>> \o Str(acct["_account_id"]) \o <<62>>

(***************************************************************************)
(* gerritboard.py: GerritFormatter and HTMLGerritFormatter.  A cell is a   *)
(* record that says what made it; a state such as 'need test' is the       *)
(* sequence of its words, which colorize joins with hyphens for the class  *)
(* name.                                                                   *)
(***************************************************************************)
\* blank = '' (GerritFormatter), '&nbsp;' (HTMLGerritFormatter)
Blank(html) == [kind |-> "blank", text |-> IF html THEN "&nbsp;" ELSE ""]

\* colorize: getattr(ansicolor, color)(state), or the div of class
\* 'state-' + state.replace(' ', '-')
colorize(html, color, state) ==
    IF html
    THEN [kind |-> "div", class |-> <<"state">> \o state, text |-> state]
    ELSE [kind |-> "ansi", color |-> color, text |-> state]

\* key in votes
In(key, vs) == \E i \in DOMAIN vs : vs[i] = key

CodeReview_ApprovedFirst(html, vs) ==
    IF In("approved", vs) THEN colorize(html, "green", <<"approved">>)
    ELSE IF In("rejected", vs) THEN colorize(html, "red", <<"rejected">>)
    ELSE IF In("disliked", vs) THEN colorize(html, "yellow", <<"disliked">>)
    ELSE IF In("recommended", vs)
         THEN colorize(html, "green", <<"recommended">>)
    ELSE Blank(html)

\* GerritFormatter.CodeReview
CodeReview(html, vs) ==
    IF In("rejected", vs) THEN colorize(html, "red", <<"rejected">>)
    ELSE IF In("approved", vs) THEN colorize(html, "green", <<"approved">>)
    ELSE IF In("disliked", vs) THEN colorize(html, "yellow", <<"disliked">>)
    ELSE IF In("recommended", vs)
         THEN colorize(html, "green", <<"recommended">>)
    ELSE Blank(html)

\* GerritFormatter.Verified
Verified(html, vs) ==
    IF In("rejected", vs) THEN colorize(html, "red", <<"fails">>)
    ELSE IF In("approved", vs) THEN colorize(html, "green", <<"ok">>)
    ELSE IF In("recommended", vs)
         THEN colorize(html, "yellow", <<"need", "test">>)
    ELSE IF In("all", vs) THEN colorize(html, "yellow", <<"need", "test">>)
    ELSE Blank(html)

\* GerritFormatter.Labels
Labels(html, labels) ==
    <<CodeReview(html, labels["Code-Review"]),
      Verified(html, labels["Verified"])>>

\* GerritFormatter.Mergeable
Mergeable(html, change) ==
    IF change["mergeable"] THEN colorize(html, "cyan", <<"mergeable">>)
    ELSE colorize(html, "red", <<"conflict">>)

\* GerritFormatter.Change: the number, or the link to the change
Change(html, number) ==
    IF html
    THEN [kind |-> "a", href |-> <<"https://gerrit.wikimedia.org/r/", number>>,
          text |-> number]
    ELSE [kind |-> "number", text |-> number]

\* days from 1970-01-01 to the civil date Y-M-D (proleptic Gregorian)
DaysFromCivil(Y, M, D) ==
    LET y == IF M <= 2 THEN Y - 1 ELSE Y
        era == y \div 400
        yoe == y - era * 400
        mp == IF M > 2 THEN M - 3 ELSE M + 9
        doy == ((153 * mp + 2) \div 5) + D - 1
        doe == yoe * 365 + (yoe \div 4) - (yoe \div 100) + doy
    IN era * 146097 + doe - 719468

\* now - then as a timedelta: <<days, seconds>> with 0 <= seconds < 86400
TimeDelta(now, then) ==
    LET dd == DaysFromCivil(now[1], now[2], now[3])
              - DaysFromCivil(then[1], then[2], then[3])
        ds == (now[4] * 3600 + now[5] * 60 + now[6])
              - (then[4] * 3600 + then[5] * 60 + then[6])
    IN IF ds < 0 THEN <<dd - 1, ds + 86400>> ELSE <<dd, ds>>

\* GerritFormatter.Age: '<n> days', or the largest non-zero unit of the day
Age(gerrit_date) ==
    LET date == DropLast(gerrit_date, FRACTION_LEN)
        age == TimeDelta(NOW_SECONDS, Strptime(date))
        m0 == age[2] \div 60
        s == age[2] % 60
        h == m0 \div 60
        m == m0 % 60
    IN IF age[1] # 0 THEN [kind |-> "age", n |-> age[1], unit |-> "days"]
       ELSE IF h # 0 THEN [kind |-> "age", n |-> h, unit |-> "hours"]
       ELSE IF m # 0 THEN [kind |-> "age", n |-> m, unit |-> "mins"]
       ELSE [kind |-> "age", n |-> s, unit |-> "secs"]

(***************************************************************************)
(* gerritstats.py: the Review column (lines 81-94)                         *)
(***************************************************************************)
StatsCodeReview(vs) ==
    IF In("rejected", vs) THEN colorize(FALSE, "red", <<"rejected">>)
    ELSE IF In("approved", vs) THEN colorize(FALSE, "green", <<"approved">>)
    ELSE IF In("disliked", vs) THEN colorize(FALSE, "yellow", <<"disliked">>)
    ELSE IF In("recommended", vs)
         THEN colorize(FALSE, "green", <<"recommended">>)
    ELSE IF vs = <<>> THEN Blank(FALSE)
    ELSE [kind |-> "raw", votes |-> vs]

Unset == [kind |-> "unset"]

\* formatter.CodeReview(labels['Code-Review']) on the vote set at hand
ClassifyBoard ==
    /\ board_cell = Unset
    /\ board_cell' = CodeReview(cls_html, votes)
    /\ UNCHANGED <<votes, cls_html, stats_cell>>
    /\ UNCHANGED <<fetchVars, statsVars, reportVars>>

\* the gerritstats.py classification of the same vote set
ClassifyStats ==
    /\ stats_cell = Unset
    /\ stats_cell' = StatsCodeReview(votes)
    /\ UNCHANGED <<votes, cls_html, board_cell>>
    /\ UNCHANGED <<fetchVars, statsVars, reportVars>>

\* the vote sets: every sequence of distinct keys of at most MaxVotes keys
VoteSets ==
    UNION {{v \in [1 .. k -> VoteKeys] : Cardinality(Range(v)) = k} :
               k \in 0 .. MaxVotes}

(***************************************************************************)
(* gerritboard.py: AggregateStat and GerritStats                           *)
(***************************************************************************)
\* '9999-12-31 23:59:59'
MAX_STAMP == StampSeconds(<<9999, 12, 31, 23, 59, 59>>)

AggregateStatInit_EmptyMin ==
    [min_created |-> <<>>, max_created |-> <<>>,
     min_updated |-> <<>>, max_updated |-> <<>>,
     num_changes |-> 0, num_mergeables |-> 0, num_conflicts |-> 0]

\* AggregateStat.__init__
AggregateStatInit ==
    [min_created |-> MAX_STAMP, max_created |-> <<>>,
     min_updated |-> MAX_STAMP, max_updated |-> <<>>,
     num_changes |-> 0, num_mergeables |-> 0, num_conflicts |-> 0]

\* AggregateStat.aggregate
aggregate(stat, change) ==
    LET created == DropLast(change["created"], FRACTION_LEN)
        updated == DropLast(change["updated"], FRACTION_LEN)
    IN [min_created |-> PyMin(stat.min_created, created),
        max_created |-> PyMax(stat.max_created, created),
        min_updated |-> PyMin(stat.min_updated, updated),
        max_updated |-> PyMax(stat.max_updated, updated),
        num_changes |-> stat.num_changes + 1,
        num_mergeables |-> stat.num_mergeables
                           + (IF change["mergeable"] THEN 1 ELSE 0),
        num_conflicts |-> stat.num_conflicts
                          + (IF change["mergeable"] THEN 0 ELSE 1)]

\* defaultdict(AggregateStat)[key].aggregate(change)
AggregateInto(dict, key, change) ==
    DictUpdate(dict,
               key :> aggregate(IF Has(dict, key) THEN dict[key]
                                ELSE AggregateStatInit, change))

\* one turn of the loop of GerritStats.__init__
GerritStatsFold ==
    /\ stat_idx < Len(stat_changes)
    /\ LET change == stat_changes[stat_idx + 1]
       IN /\ general' = aggregate(general, change)
          /\ per_projects' =
                 AggregateInto(per_projects, change["project"], change)
          /\ per_owners' =
                 AggregateInto(per_owners, formatAccountInfo(change["owner"]),
                               change)
    /\ stat_idx' = stat_idx + 1
    /\ UNCHANGED stat_changes
    /\ UNCHANGED <<fetchVars, classVars, reportVars>>

(***************************************************************************)
(* gerritboard.py: the report builder (GerritFormatter) and GerritBoard    *)
(***************************************************************************)
\* GerritFormatter.__init__: the owner column is there when owner is None
TableHeaders(owner) ==
    <<"Change", "Review", "CI", "merge">>
    \o (IF owner = PyNone THEN <<"owner">> ELSE <<>>)
    \o <<"age", "updated">>

\* the fields addChanges builds for one change: the owner cell is there
\* when 'not owner'
Fields(html, change, owner) ==
    <<Change(html, change["_number"])>>
    \o Labels(html, change["labels"])
    \o <<Mergeable(html, change)>>
    \o (IF ~Truthy(owner)
        THEN <<[kind |-> "owner", text |-> formatAccountInfo(change["owner"])]>>
        ELSE <<>>)
    \o <<Age(change["created"]), Age(change["updated"])>>

\* project_rows[project].append(fields) on the defaultdict(list), which
\* keeps its keys in the order of their first use
AppendRow(rows, project, fields) ==
    IF \E i \in DOMAIN rows : rows[i].project = project
    THEN [i \in DOMAIN rows |->
             IF rows[i].project = project
             THEN [rows[i] EXCEPT !.rows = Append(@, fields)]
             ELSE rows[i]]
    ELSE Append(rows, [project |-> project, rows |-> <<fields>>])

\* GerritFormatter.addChanges
RECURSIVE addChanges(_, _, _, _)
addChanges(rows, html, chs, owner) ==
    IF chs = <<>> THEN rows
    ELSE addChanges(AppendRow(rows, Head(chs)["project"],
                              Fields(html, Head(chs), owner)),
                    html, Tail(chs), owner)

\* PrettyTable(field_names)
PrettyTable(field_names) ==
    [field_names |-> field_names, rows |-> <<>>, error |-> FALSE]

\* table.add_row(row): a row that has not one value per field raises
add_row(table, row) ==
    IF table.error THEN table
    ELSE IF Len(row) # Len(table.field_names)
         THEN [table EXCEPT !.error = TRUE]
    ELSE [table EXCEPT !.rows = Append(@, row)]

RECURSIVE add_rows(_, _)
add_rows(table, rows) ==
    IF rows = <<>> THEN table
    ELSE add_rows(add_row(table, Head(rows)), Tail(rows))

\* GerritFormatter.getProjects
getProjects(rows) == [i \in DOMAIN rows |-> rows[i].project]

\* GerritFormatter.getProjectTable
getProjectTable(fmt, rows, project) ==
    LET i == CHOOSE j \in DOMAIN rows : rows[j].project = project
    IN add_rows(PrettyTable(fmt.table_headers), rows[i].rows)

\* GerritFormatter.getTable: each project's name as a row of its own, then
\* the rows of the project
RECURSIVE getTableFrom(_, _, _)
getTableFrom(table, fmt, rows) ==
    IF rows = <<>> THEN table
    ELSE LET p_row == <<[kind |-> "project", text |-> Head(rows).project]>>
                      \o [i \in 1 .. Len(fmt.table_headers) - 1 |->
                             Blank(fmt.html)]
         IN getTableFrom(add_rows(add_row(table, p_row), Head(rows).rows),
                         fmt, Tail(rows))

getTable(fmt, rows) == getTableFrom(PrettyTable(fmt.table_headers), fmt, rows)

\* GerritFormatter.generate and wrapBody: the tables in the order they are
\* written between header and footer, or the exception of a table
generate(fmt, rows) ==
    LET tables == IF fmt.split
                  THEN [i \in DOMAIN rows |->
                           getProjectTable(fmt, rows, getProjects(rows)[i])]
                  ELSE <<getTable(fmt, rows)>>
    IN IF \E i \in DOMAIN tables : tables[i].error
       THEN [status |-> "raised"]
       ELSE [status |-> "printed", header |-> fmt.header,
             stringifier |-> IF fmt.html THEN "get_html_string"
                             ELSE "get_string",
             tables |-> tables, footer |-> fmt.footer]

SortKeyLess_ProjectOnly(c1, c2) == SeqLess(c1["project"], c2["project"])

\* operator.itemgetter('project', 'updated'): the keys as Python orders them
SortKeyLess(c1, c2) ==
    \/ SeqLess(c1["project"], c2["project"])
    \/ /\ c1["project"] = c2["project"]
       /\ SeqLess(c1["updated"], c2["updated"])

\* list.sort(key=...): stable, so a record goes behind its equals
InsertSorted(sorted, c) ==
    LET k == Cardinality({i \in DOMAIN sorted : ~SortKeyLess(c, sorted[i])})
    IN SubSeq(sorted, 1, k) \o <<c>> \o SubSeq(sorted, k + 1, Len(sorted))

RECURSIVE SortChanges(_)
SortChanges(l) ==
    IF l = <<>> THEN <<>>
    ELSE InsertSorted(SortChanges(SubSeq(l, 1, Len(l) - 1)), Last(l))

\* GerritBoard.__init__
GerritBoardInit ==
    /\ rpc = "new"
    /\ rpc' = "constructed"
    /\ gerrit_query' =
           (IF Truthy(args.owner) THEN "owner" :> args.owner ELSE EmptyDict)
           @@ (IF Truthy(args.project) THEN "project" :> args.project
               ELSE EmptyDict)
           @@ gerrit_query
    /\ formatter' =
           [html |-> args.html,
            table_headers |-> TableHeaders(args.owner),
            split |-> args.split,
            header |-> IF args.html THEN "html_header()" ELSE "",
            footer |-> IF args.html THEN "</body></html>" ELSE ""]
    /\ UNCHANGED <<args, project_rows, board_changes, fetched, cache, output>>
    /\ UNCHANGED <<fetchVars, classVars, statsVars>>

\* '%s:owner:%s/project:%s' % (cache_version, owner, project)
CacheKey(a) == <<"v1", a.owner, a.project>>

\* GerritBoard.main, printing to stdout (no --output)
Main ==
    /\ rpc = "constructed"
    /\ rpc' = "done"
    /\ LET key == CacheKey(args)
           hit == args.cached /\ Has(cache, key)
           chs == IF hit THEN cache[key] ELSE SortChanges(fetched)
           rows == addChanges(project_rows, formatter.html, chs, args.owner)
       IN /\ board_changes' = chs
          /\ cache' = IF hit THEN cache ELSE DictUpdate(cache, key :> chs)
          /\ project_rows' = rows
          /\ output' = generate(formatter, rows)
    /\ UNCHANGED <<args, gerrit_query, formatter, fetched>>
    /\ UNCHANGED <<fetchVars, classVars, statsVars>>

(***************************************************************************)
(* The specifications.                                                     *)
(***************************************************************************)
FetchIdle ==
    /\ mode = "idle"
    /\ batch = 0
    /\ query = EmptyDict
    /\ fpc = "idle"
    /\ search_operators = EmptyDict
    /\ has_more_changes = FALSE
    /\ chunk_num = 0
    /\ sortkey = PyNone
    /\ changes = <<>>
    /\ requests = <<>>
    /\ responses = <<>>

ClassIdle ==
    /\ votes = <<>>
    /\ cls_html = FALSE
    /\ board_cell = Unset
    /\ stats_cell = Unset

StatsIdle ==
    /\ stat_changes = <<>>
    /\ stat_idx = 0
    /\ general = AggregateStatInit
    /\ per_projects = EmptyDict
    /\ per_owners = EmptyDict

ReportIdle ==
    /\ args = EmptyDict
    /\ rpc = "idle"
    /\ gerrit_query = EmptyDict
    /\ formatter = EmptyDict
    /\ project_rows = <<>>
    /\ board_changes = <<>>
    /\ fetched = <<>>
    /\ cache = EmptyDict
    /\ output = [status |-> "none"]

\* a fetcher made with some --batch and asked with some filter map
\* (gerritboard.py), or the gerritstats.py script about to start
FetchInit ==
    /\ \/ mode = "offset" /\ batch \in BatchSizes /\ query \in Queries
       \/ mode = "cursor" /\ batch = BATCH_SIZE /\ query = EmptyDict
    /\ fpc = "init"
    /\ search_operators = EmptyDict
    /\ has_more_changes = FALSE
    /\ chunk_num = 0
    /\ sortkey = PyNone
    /\ changes = <<>>
    /\ requests = <<>>
    /\ responses = <<>>
    /\ ClassIdle /\ StatsIdle /\ ReportIdle

FetchNext ==
    \/ FetchAll
    \/ FetchChunks
    \/ GerritStatsStart
    \/ FetchChunk

SpecFetch == FetchInit /\ [][FetchNext]_vars

\* the program runs on: every request is answered and the loop goes on
FairSpecFetch == FetchInit /\ [][FetchNext]_vars /\ WF_vars(FetchNext)

\* a Code-Review vote set, about to be classified by both programs
ClassInit ==
    /\ votes \in VoteSets
    /\ cls_html \in BOOLEAN
    /\ board_cell = Unset
    /\ stats_cell = Unset
    /\ FetchIdle /\ StatsIdle /\ ReportIdle

ClassNext ==
    \/ ClassifyBoard
    \/ ClassifyStats

SpecClassify == ClassInit /\ [][ClassNext]_vars

\* GerritStats(changes), about to fold its changes
StatsInit ==
    /\ stat_changes \in ChangeLists(MaxFetched)
    /\ stat_idx = 0
    /\ general = AggregateStatInit
    /\ per_projects = EmptyDict
    /\ per_owners = EmptyDict
    /\ FetchIdle /\ ClassIdle /\ ReportIdle

StatsNext == GerritStatsFold

SpecStats == StatsInit /\ [][StatsNext]_vars

\* the command lines of gerritboard.py that print to stdout
Args ==
    [owner : {PyNone, "", "hashar"},
     project : {PyNone, "^integration/.*"},
     split : BOOLEAN, html : BOOLEAN, cached : BOOLEAN]

\* the program is started: the server will answer fetch_all with some list
\* of changes; with --cached the shelf may hold the list an earlier run
\* sorted and stored under this command line's key
ReportInit ==
    /\ args \in Args
    /\ \/ /\ cache = EmptyDict
          /\ fetched \in ChangeLists(MaxFetched)
       \/ /\ args.cached
          /\ cache \in {CacheKey(args) :> SortChanges(l) :
                            l \in ChangeLists(MaxFetched)}
          /\ fetched = <<>>
    /\ rpc = "new"
    /\ gerrit_query = EmptyDict
    /\ formatter = EmptyDict
    /\ project_rows = <<>>
    /\ board_changes = <<>>
    /\ output = [status |-> "none"]
    /\ FetchIdle /\ ClassIdle /\ StatsIdle

ReportNext ==
    \/ GerritBoardInit
    \/ Main

SpecReport == ReportInit /\ [][ReportNext]_vars

(***************************************************************************)
(* Claims about the fetch loop                                             *)
(***************************************************************************)
\* every response but the latest was a non-empty chunk, and in offset-based
\* mode its last record carried the more-records flag: no query follows an
\* empty response or an unflagged chunk
NoQueryAfterStop ==
    /\ Len(requests) = Len(responses)
    /\ \A i \in 1 .. Len(responses) - 1 :
          /\ responses[i] # <<>>
          /\ mode = "offset" => MoreChanges(responses[i])

\* C1: against a service serving finitely many non-empty pages and then
\* empty responses, fetch_all terminates, what it returns is exactly the
\* concatenation, in order, of the pages received, and no query is issued
\* after the first empty response or (offset-based) the first chunk whose
\* last record lacks the more-records flag.
C1_FetchAllConcatenatesAndStops ==
    /\ [](changes = Concat(responses))
    /\ [](NoQueryAfterStop)
    /\ [][fpc = "done" => requests' = requests /\ changes' = changes]_vars
    /\ (fpc = "loop") ~> (fpc = "done")

C1_Witness ==
    /\ fpc = "done"
    /\ Len(responses) = 3
    /\ responses[3] = <<>>
    /\ \E i, j \in 1 .. Len(changes) :
          i < j /\ changes[i]["_number"] # changes[j]["_number"]

\* C2 as amended: a batch size above 500 raises before any query is issued;
\* a batch size of 500 or less passes validation, and the first query
\* carries the caller's own limit when the filter map has one, the batch
\* size otherwise.
C2_BatchBoundCallerLimitWins ==
    mode = "offset" =>
      /\ batch > 500 /\ fpc # "init" => fpc = "raised" /\ requests = <<>>
      /\ batch <= 500 => fpc # "raised"
      /\ batch <= 500 /\ requests # <<>> =>
            requests[1]["q"]["limit"] =
                IF Has(query, "limit") THEN query["limit"] ELSE batch

C2_Witness ==
    /\ mode = "offset"
    /\ batch = 501
    /\ fpc = "raised"
    /\ requests = <<>>

\* C2 as stated: with a batch size of 500 or less the first query is
\* issued with limit equal to the batch size.
C2_Original ==
    mode = "offset" =>
      /\ batch > 500 /\ fpc # "init" => fpc = "raised" /\ requests = <<>>
      /\ batch <= 500 => fpc # "raised"
      /\ batch <= 500 /\ requests # <<>> =>
            requests[1]["q"]["limit"] = batch

\* C7: in offset-based mode the first request has no start parameter; the
\* request after the k-th non-empty chunk, sent only if that chunk's last
\* record carried the more-records flag, has start = k * batchSize; an
\* unflagged chunk ends the loop.
C7_OffsetStart ==
    mode = "offset" =>
      /\ \A i \in 1 .. Len(requests) :
            IF i = 1
            THEN ~Has(requests[i], "start")
            ELSE /\ MoreChanges(responses[i - 1])
                 /\ Has(requests[i], "start")
                 /\ requests[i]["start"] = (i - 1) * batch
      /\ /\ responses # <<>>
         /\ Last(responses) # <<>>
         /\ ~MoreChanges(Last(responses))
         => fpc = "done"

C7_Witness ==
    /\ mode = "offset"
    /\ Len(requests) = 3
    /\ batch = 2
    /\ ~Has(requests[1], "start")
    /\ requests[2]["start"] = 2
    /\ requests[3]["start"] = 4
    /\ fpc = "done"

\* C8: in cursor-resume mode the first request has no resume_sortkey, every
\* later one carries the _sortkey of the last record of the chunk just
\* before it, and the loop stops only on an empty response.
C8_CursorResume ==
    mode = "cursor" =>
      /\ \A i \in 1 .. Len(requests) :
            IF i = 1
            THEN ~Has(requests[i]["q"], "resume_sortkey")
            ELSE /\ Has(requests[i]["q"], "resume_sortkey")
                 /\ requests[i]["q"]["resume_sortkey"] =
                        Last(responses[i - 1])["_sortkey"]
      /\ fpc = "done" => responses # <<>> /\ Last(responses) = <<>>
      /\ responses # <<>> /\ Last(responses) # <<>> => fpc = "loop"

C8_Witness ==
    /\ mode = "cursor"
    /\ Len(requests) = 3
    /\ Last(responses[1])["_sortkey"] # Last(responses[2])["_sortkey"]
    /\ responses[1][1]["_sortkey"] # Last(responses[1])["_sortkey"]
    /\ fpc = "done"

\* the start offset a request carries, 0 when it carries none
StartOf(endpoint) == IF Has(endpoint, "start") THEN endpoint["start"] ELSE 0

\* C10: in offset-based mode every request's start offset (0 when absent)
\* equals the number of records all earlier responses of the run returned,
\* also when a non-final chunk is shorter than the batch size and when the
\* caller's filter map overrides the limit.
C10_StartEqualsRecordsSoFar ==
    mode = "offset" =>
      \A i \in 1 .. Len(requests) :
          StartOf(requests[i]) = SumLen(SubSeq(responses, 1, i - 1))

(***************************************************************************)
(* Claims about the Code-Review classifier                                 *)
(***************************************************************************)
\* the fixed priority order: rejected > approved > disliked > recommended
Rank(key) ==
    CASE key = "rejected" -> 1
      [] key = "approved" -> 2
      [] key = "disliked" -> 3
      [] key = "recommended" -> 4

Present(vs) == KnownVotes \cap Range(vs)

\* the member of the vote set with the highest priority
TopVote(vs) ==
    CHOOSE k \in Present(vs) : \A q \in Present(vs) : Rank(k) <= Rank(q)

FollowsPriority(cell, vs) ==
    cell.kind # "unset" =>
      /\ Present(vs) # {} =>
            /\ cell.kind \in {"ansi", "div"}
            /\ cell.text = <<TopVote(vs)>>
      /\ vs = <<>> => cell.kind = "blank"

\* C3: whatever the order in which the votes were inserted, the classifier
\* returns the state of the highest-priority member present under
\* rejected > approved > disliked > recommended, and blank for no votes.
C3_ClassificationPriority ==
    /\ FollowsPriority(board_cell, votes)
    /\ FollowsPriority(stats_cell, votes)

C3_Witness ==
    /\ votes = <<"recommended", "approved", "rejected">>
    /\ board_cell.kind = "div"
    /\ board_cell.text = <<"rejected">>
    /\ stats_cell.kind = "ansi"
    /\ stats_cell.text = <<"rejected">>

PassesThrough(cell, vs) ==
    cell.kind # "unset" => cell.kind = "raw" /\ cell.votes = vs

\* C4: a non-empty vote set with none of the four known keys comes back as
\* the raw vote set itself, which the result for no votes never is.
C4_UnknownVotesPassThrough ==
    votes # <<>> /\ Present(votes) = {} =>
      /\ PassesThrough(board_cell, votes)
      /\ PassesThrough(stats_cell, votes)

(***************************************************************************)
(* Claims about AggregateStat                                              *)
(***************************************************************************)
\* a Gerrit timestamp to the second, as text and as <<Y, M, D, h, m, s>>
Seconds(stamp) == DropLast(stamp, 10)

Instant(stamp) == Strptime(Seconds(stamp))

\* the instant of the timestamp a is not after that of b
NotAfter(a, b) == ~SeqLess(Instant(b), Instant(a))

\* v is the timestamp, to the second, of the earliest (latest) of the
\* records cs in the field f
IsEarliest(v, cs, f) ==
    \E i \in DOMAIN cs :
       /\ v = Seconds(cs[i][f])
       /\ \A j \in DOMAIN cs : NotAfter(cs[i][f], cs[j][f])

IsLatest(v, cs, f) ==
    \E i \in DOMAIN cs :
       /\ v = Seconds(cs[i][f])
       /\ \A j \in DOMAIN cs : NotAfter(cs[j][f], cs[i][f])

\* stat is the rollup of the records cs
RollsUp(stat, cs) ==
    cs # <<>> =>
      /\ stat.num_changes = Len(cs)
      /\ IsEarliest(stat.min_created, cs, "created")
      /\ IsLatest(stat.max_created, cs, "created")
      /\ IsEarliest(stat.min_updated, cs, "updated")
      /\ IsLatest(stat.max_updated, cs, "updated")
      /\ stat.min_created # StampSeconds(<<9999, 12, 31, 23, 59, 59>>)
      /\ stat.min_updated # StampSeconds(<<9999, 12, 31, 23, 59, 59>>)
      /\ stat.max_created # <<>>
      /\ stat.max_updated # <<>>

Folded == SubSeq(stat_changes, 1, stat_idx)

OfProject(p) == SelectSeq(Folded, LAMBDA c : c["project"] = p)

OfOwner(o) == SelectSeq(Folded, LAMBDA c : formatAccountInfo(c["owner"]) = o)

\* C6: once n >= 1 records are folded into a fresh AggregateStat, in any
\* order, its count is n and its min/max created and updated are those of
\* the earliest and latest record; no sentinel bound is left.  This holds
\* of the general rollup and of every per-project and per-owner rollup.
C6_AggregateBounds ==
    /\ RollsUp(general, Folded)
    /\ DOMAIN per_projects = {c["project"] : c \in Range(Folded)}
    /\ \A p \in DOMAIN per_projects : RollsUp(per_projects[p], OfProject(p))
    /\ DOMAIN per_owners =
           {formatAccountInfo(c["owner"]) : c \in Range(Folded)}
    /\ \A o \in DOMAIN per_owners : RollsUp(per_owners[o], OfOwner(o))

C6_Witness ==
    /\ stat_idx = 3
    /\ general.num_changes = 3
    /\ general.min_created = Seconds(stat_changes[2]["created"])
    /\ general.min_created # Seconds(stat_changes[1]["created"])
    /\ general.min_created # Seconds(stat_changes[3]["created"])
    /\ general.max_created = Seconds(stat_changes[1]["created"])

(***************************************************************************)
(* Claims about the report                                                 *)
(***************************************************************************)
\* the change number a data row shows in its first cell
RowNumber(row) == row[1].text

IsDataRow(row) == row[1].kind # "project"

ChangeOf(row) ==
    CHOOSE c \in Range(board_changes) : c["_number"] = RowNumber(row)

\* the updated timestamp as <<Y, M, D, h, m, s, nanoseconds>>
UpdatedAt(c) ==
    Instant(c["updated"]) \o <<ParseInt(c["updated"], 21, 29)>>

\* every place <<group, index>> of a row in project_rows
Places ==
    {<<g, i>> \in (DOMAIN project_rows) \X (1 .. Len(board_changes)) :
        i <= Len(project_rows[g].rows)}

\* every record is one row of the one group of its project
PlacedOnce ==
    /\ \A c \in Range(board_changes) :
          \E pl \in Places :
             /\ RowNumber(project_rows[pl[1]].rows[pl[2]]) = c["_number"]
             /\ project_rows[pl[1]].project = c["project"]
             /\ \A other \in Places :
                   RowNumber(project_rows[other[1]].rows[other[2]])
                       = c["_number"] => other = pl
    /\ SumLen([g \in DOMAIN project_rows |-> project_rows[g].rows])
           = Len(board_changes)
    /\ \A g, h \in DOMAIN project_rows :
          project_rows[g].project = project_rows[h].project => g = h

\* the data rows of the rendered tables, in the order they are printed
Rendered ==
    Concat([t \in DOMAIN output.tables |->
               SelectSeq(output.tables[t].rows, IsDataRow)])

\* rows of one project are contiguous and in non-decreasing updated order
GroupedAndOrdered(rows) ==
    /\ Len(rows) = Len(board_changes)
    /\ \A c \in Range(board_changes) :
          \E i \in DOMAIN rows : RowNumber(rows[i]) = c["_number"]
    /\ \A i, k \in DOMAIN rows :
          i < k /\ ChangeOf(rows[i])["project"] = ChangeOf(rows[k])["project"]
          => /\ \A j \in i .. k :
                   ChangeOf(rows[j])["project"] = ChangeOf(rows[i])["project"]
             /\ ~SeqLess(UpdatedAt(ChangeOf(rows[k])),
                         UpdatedAt(ChangeOf(rows[i])))

\* split: a table holds the rows of one project, and no two tables share
\* one; unified: a data row stands under the name of its project
TablesByProject ==
    IF formatter.split
    THEN /\ \A t \in DOMAIN output.tables :
               \A i, j \in DOMAIN output.tables[t].rows :
                   /\ IsDataRow(output.tables[t].rows[i])
                   /\ ChangeOf(output.tables[t].rows[i])["project"]
                        = ChangeOf(output.tables[t].rows[j])["project"]
         /\ \A t, u \in DOMAIN output.tables :
               t # u =>
                 ChangeOf(output.tables[t].rows[1])["project"]
                   # ChangeOf(output.tables[u].rows[1])["project"]
    ELSE LET rows == output.tables[1].rows
         IN \A i \in DOMAIN rows :
               IsDataRow(rows[i]) =>
                 \E s \in 1 .. i - 1 :
                    /\ ~IsDataRow(rows[s])
                    /\ rows[s][1].text = ChangeOf(rows[i])["project"]
                    /\ \A j \in s + 1 .. i : IsDataRow(rows[j])

\* C5: once main has fetched the records, sorted them by (project, updated)
\* and added them with addChanges, every record is exactly one row of
\* exactly one project group, and in the report that is rendered (one
\* unified table, or one table per project) the rows of a project are
\* contiguous and in non-decreasing order of their updated timestamp.
C5_GroupedContiguousOrdered ==
    rpc = "done" =>
      /\ fetched # <<>> =>
            /\ Len(board_changes) = Len(fetched)
            /\ Range(board_changes) = Range(fetched)
      /\ PlacedOnce
      /\ output.status = "printed" =>
            /\ GroupedAndOrdered(Rendered)
            /\ TablesByProject

C5_Witness ==
    /\ rpc = "done"
    /\ output.status = "printed"
    /\ ~formatter.split
    /\ Len(fetched) = 3
    /\ fetched[1]["_number"] = 2
    /\ fetched[2]["_number"] = 1
    /\ fetched[3]["_number"] = 4
    /\ RowNumber(Rendered[1]) = 4
    /\ RowNumber(Rendered[2]) = 1
    /\ RowNumber(Rendered[3]) = 2

\* C9: whatever the owner filter, the header has the owner column exactly
\* when every row has the owner cell, so a row has as many cells as the
\* header; and the column is left out exactly when the report is scoped to
\* one known owner.
C9_OwnerColumnMatchesRows ==
    rpc = "done" =>
      /\ \A pl \in Places :
            Len(project_rows[pl[1]].rows[pl[2]])
                = Len(formatter.table_headers)
      /\ \A pl \in Places :
            ("owner" \in Range(formatter.table_headers))
            <=> (\E i \in DOMAIN project_rows[pl[1]].rows[pl[2]] :
                    project_rows[pl[1]].rows[pl[2]][i].kind = "owner")
      /\ ("owner" \notin Range(formatter.table_headers))
            <=> Truthy(args.owner)

====
